---------------------------- MODULE Spec2Model ----------------------------
(***************************************************************************)
(* Worker-side pipeline of the event-driven task processor:                *)
(*   producer/app/publisher.py   publish_task                              *)
(*   worker/app/worker.py        start_worker, queue topology              *)
(*   worker/app/consumer.py      process_message, TASK_HANDLERS            *)
(*   worker/app/idempotency.py   is_duplicate, mark_processed              *)
(*   worker/app/retry_handler.py handle_failure, _republish_task,          *)
(*                               _publish_to_dlq                           *)
(* The broker (RabbitMQ) and the dedup store (Redis) are the environment:  *)
(* the main queue and the dead-letter queue are bags of message bodies,    *)
(* the store is a set of keys.  Each worker process runs process_message   *)
(* one step at a time; every step that touches the broker or the store is  *)
(* a separate action, so that worker instances interleave and a process    *)
(* can die between any two of them.                                        *)
(***************************************************************************)
EXTENDS Integers, Sequences, FiniteSets, Bags, TLC

\* ------------------------------------------------------------ bounds ----
\* Number of messages published to the main exchange by clients.
MaxSubmit == 2
\* Number of environment faults (store errors, broker publish errors,
\* process kills) in one behaviour.
MaxFaults == 2

\* ----------------------------------------------------- program constants
MAX_RETRIES == 3
RETRY_BASE_DELAY == 2
STARTUP_RETRY_ATTEMPTS == 10
STARTUP_RETRY_DELAY == 5

\* Worker processes (Consumer Loop instances) sharing the queue and the store.
Workers == {"w1", "w2"}

\* task_id values clients use.
TaskIds == {"t1", "t2"}

\* The handler registry: task_type -> what the handler does when invoked.
TASK_HANDLERS ==
    [send_email |-> "return", resize_image |-> "return",
     process_payment |-> "return", fail_task |-> "raise"]

\* Optional[int]: None is <<>>, the integer n is <<n>>.
None == <<>>

\* A TaskPayload with every field of the pydantic model.
TaskPayload(id, type, rc, mr) ==
    [task_id |-> id, task_type |-> type, payload |-> "p",
     retry_count |-> rc, created_at |-> "c", max_retries |-> mr]

\* task.model_dump_json().encode(): the wire body of a task.
model_dump_json(task) ==
    [json |-> "object", task_id |-> task.task_id, task_type |-> task.task_type,
     payload |-> task.payload, retry_count |-> task.retry_count,
     created_at |-> task.created_at, max_retries |-> task.max_retries]

\* Bodies that are not a TaskPayload: bytes that are not JSON, and a JSON
\* object without the required task_type.
MalformedBodies ==
    { [json |-> "invalid", task_id |-> "", task_type |-> "", payload |-> "",
       retry_count |-> 0, created_at |-> "", max_retries |-> None],
      [json |-> "object", task_id |-> "t1", task_type |-> "", payload |-> "p",
       retry_count |-> 0, created_at |-> "c", max_retries |-> None] }

\* (variant: the parsed task does not take max_retries from the body)
ParseBody_no_budget(body) ==
    IF body.json = "object" /\ body.task_type # ""
    THEN [ok |-> TRUE,
          task |-> TaskPayload(body.task_id, body.task_type,
                               body.retry_count, None)]
    ELSE [ok |-> FALSE, task |-> TaskPayload("", "", 0, None)]

\* json.loads(body); TaskPayload(**raw): ok is FALSE when either raises.
ParseBody(body) ==
    IF body.json = "object" /\ body.task_type # ""
    THEN [ok |-> TRUE,
          task |-> TaskPayload(body.task_id, body.task_type,
                               body.retry_count, body.max_retries)]
    ELSE [ok |-> FALSE, task |-> TaskPayload("", "", 0, None)]

\* The requests the producer API receives in this model (POST /tasks takes a
\* whole TaskPayload, so task_id, retry_count and max_retries are the
\* client's to set).
Requests ==
    { TaskPayload("t1", "send_email", 0, None),
      TaskPayload("t1", "fail_task", 0, <<1>>),
      TaskPayload("t2", "fail_task", 0, <<0>>),
      TaskPayload("t2", "fail_task", 0, None),
      TaskPayload("t2", "no_such_type", 0, None),
      TaskPayload("t2", "send_email", 1, <<1>>) }

VARIABLES
    ready,      \* main queue: bag of bodies ready for delivery
    unacked,    \* per worker: the delivered, unacknowledged body (<<>> or <<b>>)
    dlq,        \* dead-letter queue: bag of [body, via]
    redis,      \* dedup store: set of keys that have not expired
    pc,         \* per worker: position in start_worker / process_message
    task,       \* per worker: the local TaskPayload (<<>> or <<t>>)
    attempt,    \* per worker: start_worker's loop variable
    sleeping,   \* per worker: seconds of the time.sleep it is in (0: none)
    faults,     \* environment faults so far
    sent,       \* history: bag of bodies clients published
    succeeded,  \* history: bag of task_ids, one per handler call that returned
    marks,      \* history: bag of task_ids, one per setex of mark_processed
    expired,    \* history: the keys whose record has expired at least once
    failures,   \* history: bag of tasks, one per handle_failure call (after +1)
    republished,\* history: bag of tasks _republish_task published
    lost,       \* history: bag of tasks whose publish raised or was killed
    settled,    \* history: bag of [body, how], one per basic_ack that ends
                \* a message: how is "success" or "duplicate"
    decisions   \* history: bag of [delivery, kind, requeue], one per
                \* basic_ack / basic_nack call

vars == <<ready, unacked, dlq, redis, pc, task, attempt, sleeping, faults,
          sent, succeeded, marks, expired, failures, republished, lost,
          settled, decisions>>

One(x) == SetToBag({x})

\* f"task:processed:{task_id}"
key(task_id) == <<"task:processed", task_id>>

Init ==
    /\ ready = EmptyBag
    /\ unacked = [w \in Workers |-> <<>>]
    /\ dlq = EmptyBag
    /\ redis = {}
    /\ pc = [w \in Workers |-> "idle"]
    /\ task = [w \in Workers |-> <<>>]
    /\ attempt = [w \in Workers |-> 1]
    /\ sleeping = [w \in Workers |-> 0]
    /\ faults = 0
    /\ sent = EmptyBag
    /\ succeeded = EmptyBag
    /\ marks = EmptyBag
    /\ expired = {}
    /\ failures = EmptyBag
    /\ republished = EmptyBag
    /\ lost = EmptyBag
    /\ settled = EmptyBag
    /\ decisions = EmptyBag

\* ---------------------------------------------------------- the broker --
\* What the broker does with a worker's unacknowledged delivery when the
\* worker's connection goes away: it returns to the main queue.
Requeued(w) ==
    IF unacked[w] = <<>> THEN ready ELSE ready (+) One(Head(unacked[w]))

\* The names of the topology (settings of config.py).
EXCHANGE_NAME == "task_exchange"
EXCHANGE_TYPE == "direct"
ROUTING_KEY == "task.process"
TASK_QUEUE == "task_queue"
DLQ_QUEUE == "dead_letter_queue"
DLQ_EXCHANGE == "dlq_exchange"

\* (variant: the dead-letter exchange is declared direct, like the main one)
Exchanges_direct ==
    (EXCHANGE_NAME :> EXCHANGE_TYPE) @@ (DLQ_EXCHANGE :> "direct")

\* The exchange_declare calls of _declare_infrastructure: exchange -> type.
Exchanges ==
    (EXCHANGE_NAME :> EXCHANGE_TYPE) @@ (DLQ_EXCHANGE :> "fanout")

\* The queue_bind calls of _declare_infrastructure.
Bindings ==
    { [queue |-> DLQ_QUEUE, exchange |-> DLQ_EXCHANGE, routing_key |-> ""],
      [queue |-> TASK_QUEUE, exchange |-> EXCHANGE_NAME,
       routing_key |-> ROUTING_KEY] }

\* The x-dead-letter-exchange argument of the queue_declare calls
\* (<<>>: the queue has none).
DeadLetterExchange ==
    (TASK_QUEUE :> <<DLQ_EXCHANGE>>) @@ (DLQ_QUEUE :> <<>>)

\* The queues a message published to an exchange with a routing key reaches:
\* a fanout exchange ignores the key, a direct one matches it to the binding.
Route(exchange, routing_key) ==
    { b.queue : b \in { x \in Bindings :
                           /\ x.exchange = exchange
                           /\ \/ Exchanges[exchange] = "fanout"
                              \/ x.routing_key = routing_key } }

\* The broker places a body in the queues the exchange routes it to (in
\* none, and the body is dropped, when no binding matches).  via records how
\* a body came to the dead-letter queue.
Routed(exchange, routing_key, body, via) ==
    LET queues == Route(exchange, routing_key) IN
       /\ ready' = IF TASK_QUEUE \in queues THEN ready (+) One(body) ELSE ready
       /\ dlq' = IF DLQ_QUEUE \in queues
                 THEN dlq (+) One([body |-> body, via |-> via]) ELSE dlq

\* channel.basic_ack(delivery_tag): the delivery is settled and gone.
basic_ack(w) ==
    /\ unacked' = [unacked EXCEPT ![w] = <<>>]
    /\ decisions' = decisions (+) One([delivery |-> unacked[w], kind |-> "ack",
                                       requeue |-> FALSE])

\* (variant: the requeue argument is left to its default, True)
basic_nack_default(w, requeue) ==
    /\ unacked' = [unacked EXCEPT ![w] = <<>>]
    /\ decisions' = decisions (+) One([delivery |-> unacked[w], kind |-> "nack",
                                       requeue |-> TRUE])
    /\ ready' = ready (+) One(Head(unacked[w]))
    /\ dlq' = dlq

\* channel.basic_nack(delivery_tag, requeue): with requeue the body returns
\* to the main queue; without, the broker dead-letters it: it republishes
\* the body, with the routing key it arrived with, to the exchange the main
\* queue's x-dead-letter-exchange argument names (and drops it when the
\* queue has no such argument).
basic_nack(w, requeue) ==
    /\ unacked' = [unacked EXCEPT ![w] = <<>>]
    /\ decisions' = decisions (+) One([delivery |-> unacked[w], kind |-> "nack",
                                       requeue |-> requeue])
    /\ IF requeue
       THEN /\ ready' = ready (+) One(Head(unacked[w]))
            /\ dlq' = dlq
       ELSE IF DeadLetterExchange[TASK_QUEUE] = <<>>
       THEN /\ ready' = ready
            /\ dlq' = dlq
       ELSE Routed(Head(DeadLetterExchange[TASK_QUEUE]), ROUTING_KEY,
                   Head(unacked[w]), "native")

\* ---------------------------------------------------------- producers --
\* publish_task: the request's TaskPayload is dumped and published to
\* task_exchange with routing key task.process, which is bound to task_queue.
publish_task(req) ==
    /\ BagCardinality(sent) < MaxSubmit
    /\ Routed(EXCHANGE_NAME, ROUTING_KEY, model_dump_json(req), "explicit")
    /\ sent' = sent (+) One(model_dump_json(req))
    /\ UNCHANGED <<unacked, redis, pc, task, attempt, sleeping, faults,
                   succeeded, marks, expired, failures, republished, lost,
                   settled, decisions>>

\* Any other client of the broker may publish bytes that are no TaskPayload.
PublishRaw(b) ==
    /\ BagCardinality(sent) < MaxSubmit
    /\ Routed(EXCHANGE_NAME, ROUTING_KEY, b, "explicit")
    /\ sent' = sent (+) One(b)
    /\ UNCHANGED <<unacked, redis, pc, task, attempt, sleeping, faults,
                   succeeded, marks, expired, failures, republished, lost,
                   settled, decisions>>

\* ------------------------------------------------------- start_worker --
\* (variant: the except branch never re-raises, whatever the attempt)
Escapes_forever(w, exc) ==
    /\ ready' = Requeued(w)
    /\ unacked' = [unacked EXCEPT ![w] = <<>>]
    /\ task' = [task EXCEPT ![w] = <<>>]
    /\ IF exc = "AMQPConnectionError"
       THEN /\ pc' = [pc EXCEPT ![w] = "connect"]
            /\ attempt' = [attempt EXCEPT ![w] = attempt[w] + 1]
            /\ sleeping' = [sleeping EXCEPT ![w] = STARTUP_RETRY_DELAY]
       ELSE /\ pc' = [pc EXCEPT ![w] = "dead"]
            /\ attempt' = attempt
            /\ sleeping' = [sleeping EXCEPT ![w] = 0]

\* An exception leaves the try block of start_worker (from _get_connection,
\* or from process_message through start_consuming).  start_worker catches
\* AMQPConnectionError only: on the last attempt it re-raises, otherwise it
\* sleeps STARTUP_RETRY_DELAY and goes round its loop.  Anything else ends
\* the process.  The old connection is gone either way, so an
\* unacknowledged delivery returns to the queue.
Escapes(w, exc) ==
    /\ ready' = Requeued(w)
    /\ unacked' = [unacked EXCEPT ![w] = <<>>]
    /\ task' = [task EXCEPT ![w] = <<>>]
    /\ IF exc = "AMQPConnectionError" /\ attempt[w] # STARTUP_RETRY_ATTEMPTS
       THEN /\ pc' = [pc EXCEPT ![w] = "connect"]
            /\ attempt' = [attempt EXCEPT ![w] = attempt[w] + 1]
            /\ sleeping' = [sleeping EXCEPT ![w] = STARTUP_RETRY_DELAY]
       ELSE /\ pc' = [pc EXCEPT ![w] = "dead"]
            /\ attempt' = attempt
            /\ sleeping' = [sleeping EXCEPT ![w] = 0]

\* _get_connection raises AMQPConnectionError: the broker is not reachable.
get_connection_raises(w) ==
    /\ pc[w] = "connect"
    /\ Escapes(w, "AMQPConnectionError")
    /\ UNCHANGED <<dlq, redis, faults,
                   sent, succeeded, marks, expired, failures, republished, lost,
                   settled, decisions>>

\* (variant: a successful connection starts the count of attempts afresh)
Connect_reset(w) ==
    /\ pc[w] = "connect"
    /\ pc' = [pc EXCEPT ![w] = "idle"]
    /\ sleeping' = [sleeping EXCEPT ![w] = 0]
    /\ attempt' = [attempt EXCEPT ![w] = 1]
    /\ UNCHANGED <<ready, unacked, dlq, redis, task, faults,
                   sent, succeeded, marks, expired, failures, republished, lost,
                   settled, decisions>>

\* The wait (if any) is over; _get_connection, basic_qos(prefetch_count=1),
\* _declare_infrastructure, basic_consume(auto_ack=False), start_consuming.
Connect(w) ==
    /\ pc[w] = "connect"
    /\ pc' = [pc EXCEPT ![w] = "idle"]
    /\ sleeping' = [sleeping EXCEPT ![w] = 0]
    /\ UNCHANGED <<ready, unacked, dlq, redis, task, attempt, faults,
                   sent, succeeded, marks, expired, failures, republished, lost,
                   settled, decisions>>

\* (variant: the next message reaches the callback as soon as the previous
\* delivery is acked, while the worker still waits in its backoff)
Deliver_while_busy(w) ==
    /\ pc[w] \in {"idle", "sleep"}
    /\ unacked[w] = <<>>
    /\ \E b \in BagToSet(ready) :
          /\ ready' = ready (-) One(b)
          /\ unacked' = [unacked EXCEPT ![w] = <<b>>]
    /\ pc' = [pc EXCEPT ![w] = "recv"]
    /\ UNCHANGED <<dlq, redis, task, attempt, sleeping, faults,
                   sent, succeeded, marks, expired, failures, republished, lost,
                   settled, decisions>>

\* The broker hands the consuming worker one message: with prefetch 1 and
\* manual acks, only when its previous delivery is settled.
Deliver(w) ==
    /\ pc[w] = "idle"
    /\ unacked[w] = <<>>
    /\ \E b \in BagToSet(ready) :
          /\ ready' = ready (-) One(b)
          /\ unacked' = [unacked EXCEPT ![w] = <<b>>]
    /\ pc' = [pc EXCEPT ![w] = "recv"]
    /\ UNCHANGED <<dlq, redis, task, attempt, sleeping, faults,
                   sent, succeeded, marks, expired, failures, republished, lost,
                   settled, decisions>>

\* The process is killed while it is inside process_message.
Crash(w) ==
    /\ pc[w] \in {"recv", "dedup", "handler", "mark", "ack", "fail",
                  "sleep", "dlq_publish"}
    /\ faults < MaxFaults
    /\ faults' = faults + 1
    /\ ready' = Requeued(w)
    /\ unacked' = [unacked EXCEPT ![w] = <<>>]
    /\ task' = [task EXCEPT ![w] = <<>>]
    /\ sleeping' = [sleeping EXCEPT ![w] = 0]
    /\ pc' = [pc EXCEPT ![w] = "killed"]
    /\ lost' = IF pc[w] \in {"sleep", "dlq_publish"}
               THEN lost (+) One(Head(task[w])) ELSE lost
    /\ UNCHANGED <<dlq, redis, attempt,
                   sent, succeeded, marks, expired, failures, republished,
                   settled, decisions>>

\* SIGINT reaches the process: KeyboardInterrupt is raised wherever the main
\* thread is.  It is no Exception, so no except clause of process_message
\* catches it; start_worker's except KeyboardInterrupt logs and breaks, and
\* the process ends.  The connection goes with it, so an unacknowledged
\* delivery returns to the queue; a task already acked and not yet published
\* goes nowhere.
KeyboardInterrupt(w) ==
    /\ pc[w] \in {"connect", "idle", "recv", "dedup", "handler", "mark", "ack",
                  "fail", "sleep", "dlq_publish"}
    /\ ready' = Requeued(w)
    /\ unacked' = [unacked EXCEPT ![w] = <<>>]
    /\ task' = [task EXCEPT ![w] = <<>>]
    /\ sleeping' = [sleeping EXCEPT ![w] = 0]
    /\ pc' = [pc EXCEPT ![w] = "stopped"]
    /\ lost' = IF pc[w] \in {"sleep", "dlq_publish"}
               THEN lost (+) One(Head(task[w])) ELSE lost
    /\ UNCHANGED <<dlq, redis, attempt, faults,
                   sent, succeeded, marks, expired, failures, republished,
                   settled, decisions>>

\* ------------------------------------------------------ the dedup store --
\* (variant: the lookup never finds the record)
is_duplicate_never(task_id) == FALSE

\* client.exists(_key(task_id))
is_duplicate(task_id) == key(task_id) \in redis

\* client.setex(_key(task_id), REDIS_TASK_TTL, "processed")
setex(task_id) ==
    /\ redis' = redis \cup {key(task_id)}
    /\ marks' = marks (+) One(task_id)

\* The TTL of a record runs out.
Expire(k) ==
    /\ k \in redis
    /\ redis' = redis \ {k}
    /\ expired' = expired \cup {k}
    /\ UNCHANGED <<ready, unacked, dlq, pc, task, attempt, sleeping, faults,
                   sent, succeeded, marks, failures, republished, lost,
                   settled, decisions>>

\* ---------------------------------------------------- process_message --
Return(w) ==
    /\ pc' = [pc EXCEPT ![w] = "idle"]
    /\ task' = [task EXCEPT ![w] = <<>>]

\* (variant: the unparseable delivery is nacked with requeue)
process_message_parse_requeue(w) ==
    /\ pc[w] = "recv"
    /\ LET r == ParseBody(Head(unacked[w])) IN
       IF r.ok
       THEN /\ task' = [task EXCEPT ![w] = <<r.task>>]
            /\ pc' = [pc EXCEPT ![w] = "dedup"]
            /\ UNCHANGED <<ready, unacked, dlq, decisions>>
       ELSE /\ basic_nack(w, TRUE)
            /\ Return(w)
    /\ UNCHANGED <<redis, attempt, sleeping, faults,
                   sent, succeeded, marks, expired, failures, republished, lost,
                   settled>>

\* json.loads and TaskPayload(**raw); on any exception basic_nack without
\* requeue and return.
process_message_parse(w) ==
    /\ pc[w] = "recv"
    /\ LET r == ParseBody(Head(unacked[w])) IN
       IF r.ok
       THEN /\ task' = [task EXCEPT ![w] = <<r.task>>]
            /\ pc' = [pc EXCEPT ![w] = "dedup"]
            /\ UNCHANGED <<ready, unacked, dlq, decisions>>
       ELSE /\ basic_nack(w, FALSE)
            /\ Return(w)
    /\ UNCHANGED <<redis, attempt, sleeping, faults,
                   sent, succeeded, marks, expired, failures, republished, lost,
                   settled>>

\* (variant: an unknown task_type is treated as a handler failure)
process_message_dispatch_retry(w) ==
    /\ pc[w] = "dedup"
    /\ LET t == Head(task[w]) IN
       IF is_duplicate(t.task_id)
       THEN /\ basic_ack(w)
            /\ settled' = settled (+) One([body |-> Head(unacked[w]),
                                            how |-> "duplicate"])
            /\ Return(w)
            /\ UNCHANGED <<ready, dlq>>
       ELSE IF t.task_type \notin DOMAIN TASK_HANDLERS
       THEN /\ pc' = [pc EXCEPT ![w] = "fail"]
            /\ UNCHANGED <<ready, unacked, dlq, task, settled,
                           decisions>>
       ELSE /\ pc' = [pc EXCEPT ![w] = "handler"]
            /\ UNCHANGED <<ready, unacked, dlq, task, settled,
                           decisions>>
    /\ UNCHANGED <<redis, attempt, sleeping, faults,
                   sent, succeeded, marks, expired, failures, republished, lost>>

\* (variant: a duplicate is marked processed again before it is acked)
process_message_dispatch_remark(w) ==
    /\ pc[w] = "dedup"
    /\ LET t == Head(task[w]) IN
       IF is_duplicate(t.task_id)
       THEN /\ setex(t.task_id)
            /\ basic_ack(w)
            /\ settled' = settled (+) One([body |-> Head(unacked[w]),
                                            how |-> "duplicate"])
            /\ Return(w)
            /\ UNCHANGED <<ready, dlq>>
       ELSE IF t.task_type \notin DOMAIN TASK_HANDLERS
       THEN /\ basic_nack(w, FALSE)
            /\ Return(w)
            /\ UNCHANGED <<redis, marks, settled>>
       ELSE /\ pc' = [pc EXCEPT ![w] = "handler"]
            /\ UNCHANGED <<ready, unacked, dlq, task, redis, marks, settled,
                           decisions>>
    /\ UNCHANGED <<attempt, sleeping, faults,
                   sent, succeeded, expired, failures, republished, lost>>

\* The idempotency check, then the lookup in TASK_HANDLERS: a duplicate is
\* acked, an unknown task_type is nacked without requeue, and otherwise the
\* handler is called.
process_message_dispatch(w) ==
    /\ pc[w] = "dedup"
    /\ LET t == Head(task[w]) IN
       IF is_duplicate(t.task_id)
       THEN /\ basic_ack(w)
            /\ settled' = settled (+) One([body |-> Head(unacked[w]),
                                            how |-> "duplicate"])
            /\ Return(w)
            /\ UNCHANGED <<ready, dlq>>
       ELSE IF t.task_type \notin DOMAIN TASK_HANDLERS
       THEN /\ basic_nack(w, FALSE)
            /\ Return(w)
            /\ settled' = settled
       ELSE /\ pc' = [pc EXCEPT ![w] = "handler"]
            /\ UNCHANGED <<ready, unacked, dlq, task, settled,
                           decisions>>
    /\ UNCHANGED <<redis, attempt, sleeping, faults,
                   sent, succeeded, marks, expired, failures, republished, lost>>

\* client.exists raises (the store is unreachable): the call is outside
\* any try, so the exception leaves process_message.
is_duplicate_raises(w) ==
    /\ pc[w] = "dedup"
    /\ faults < MaxFaults
    /\ faults' = faults + 1
    /\ Escapes(w, "RedisError")
    /\ UNCHANGED <<dlq, redis,
                   sent, succeeded, marks, expired, failures, republished, lost,
                   settled, decisions>>

\* (variant: mark_processed runs whether the handler returned or raised)
run_handler_then_mark(w) ==
    /\ pc[w] = "handler"
    /\ LET t == Head(task[w]) IN
       IF TASK_HANDLERS[t.task_type] = "return"
       THEN /\ succeeded' = succeeded (+) One(t.task_id)
            /\ pc' = [pc EXCEPT ![w] = "mark"]
       ELSE /\ succeeded' = succeeded
            /\ pc' = [pc EXCEPT ![w] = "mark"]
    /\ UNCHANGED <<ready, unacked, dlq, redis, task, attempt, sleeping, faults,
                   sent, marks, expired, failures, republished, lost, settled,
                   decisions>>

\* handler(task) runs to its end: it returns or it raises.
run_handler(w) ==
    /\ pc[w] = "handler"
    /\ LET t == Head(task[w]) IN
       IF TASK_HANDLERS[t.task_type] = "return"
       THEN /\ succeeded' = succeeded (+) One(t.task_id)
            /\ pc' = [pc EXCEPT ![w] = "mark"]
       ELSE /\ succeeded' = succeeded
            /\ pc' = [pc EXCEPT ![w] = "fail"]
    /\ UNCHANGED <<ready, unacked, dlq, redis, task, attempt, sleeping, faults,
                   sent, marks, expired, failures, republished, lost, settled,
                   decisions>>

\* (variant: the delivery is acked first and the record is not yet written)
mark_processed_ack_first(w) ==
    /\ pc[w] = "mark"
    /\ basic_ack(w)
    /\ pc' = [pc EXCEPT ![w] = "ack"]
    /\ UNCHANGED <<ready, dlq, redis, task, attempt, sleeping, faults,
                   sent, succeeded, marks, expired, failures, republished, lost,
                   settled>>

\* mark_processed(task.task_id) after the handler returned.
mark_processed(w) ==
    /\ pc[w] = "mark"
    /\ setex(Head(task[w]).task_id)
    /\ pc' = [pc EXCEPT ![w] = "ack"]
    /\ UNCHANGED <<ready, unacked, dlq, task, attempt, sleeping, faults,
                   sent, succeeded, expired, failures, republished, lost,
                   settled, decisions>>

\* client.setex raises: inside the try, so the except branch takes over.
mark_processed_raises(w) ==
    /\ pc[w] = "mark"
    /\ faults < MaxFaults
    /\ faults' = faults + 1
    /\ pc' = [pc EXCEPT ![w] = "fail"]
    /\ UNCHANGED <<ready, unacked, dlq, redis, task, attempt, sleeping,
                   sent, succeeded, marks, expired, failures, republished, lost,
                   settled, decisions>>

\* basic_ack after mark_processed; process_message returns.
ack_success(w) ==
    /\ pc[w] = "ack"
    /\ basic_ack(w)
    /\ settled' = settled (+) One([body |-> Head(unacked[w]), how |-> "success"])
    /\ Return(w)
    /\ UNCHANGED <<ready, dlq, redis, attempt, sleeping, faults,
                   sent, succeeded, marks, expired, failures, republished, lost>>

\* ------------------------------------------------------- retry_handler --
\* (variant: max_retries or MAX_RETRIES, which takes 0 for absent)
effective_max_retries_truthy(t) ==
    IF t.max_retries # None /\ Head(t.max_retries) # 0
    THEN Head(t.max_retries) ELSE MAX_RETRIES

\* max_retries = task.max_retries if it is not None else MAX_RETRIES
effective_max_retries(t) ==
    IF t.max_retries # None THEN Head(t.max_retries) ELSE MAX_RETRIES

\* (variant: the increment is lost)
incremented_lost(t) == t

\* task.retry_count += 1
incremented(t) == [t EXCEPT !.retry_count = @ + 1]

\* b ** n for a natural n
RECURSIVE Pow(_, _)
Pow(b, n) == IF n = 0 THEN 1 ELSE b * Pow(b, n - 1)

\* (variant: the delay grows linearly with the attempt number)
delay_linear(t) == RETRY_BASE_DELAY * t.retry_count

\* delay = settings.RETRY_BASE_DELAY ** task.retry_count
delay(t) == Pow(RETRY_BASE_DELAY, t.retry_count)

\* (variant: the comparison the header of retry_handler.py words, <)
retry_allowed_strict(t) == t.retry_count < effective_max_retries(t)

\* if task.retry_count <= max_retries: retry, else dead-letter
retry_allowed(t) == t.retry_count <= effective_max_retries(t)

\* (variant: the delivery is nacked without requeue, as the header of
\* consumer.py words it, instead of acked)
handle_failure_nack(w) ==
    /\ pc[w] = "fail"
    /\ basic_nack(w, FALSE)
    /\ LET t == incremented(Head(task[w])) IN
          /\ task' = [task EXCEPT ![w] = <<t>>]
          /\ failures' = failures (+) One(t)
          /\ IF retry_allowed(t)
             THEN /\ sleeping' = [sleeping EXCEPT ![w] = delay(t)]
                  /\ pc' = [pc EXCEPT ![w] = "sleep"]
             ELSE /\ sleeping' = sleeping
                  /\ pc' = [pc EXCEPT ![w] = "dlq_publish"]
    /\ UNCHANGED <<redis, attempt, faults,
                   sent, succeeded, marks, expired, republished, lost, settled>>

\* (variant: handle_failure is entered without the basic_ack before it)
handle_failure_unacked(w) ==
    /\ pc[w] = "fail"
    /\ LET t == incremented(Head(task[w])) IN
          /\ task' = [task EXCEPT ![w] = <<t>>]
          /\ failures' = failures (+) One(t)
          /\ IF retry_allowed(t)
             THEN /\ sleeping' = [sleeping EXCEPT ![w] = delay(t)]
                  /\ pc' = [pc EXCEPT ![w] = "sleep"]
             ELSE /\ sleeping' = sleeping
                  /\ pc' = [pc EXCEPT ![w] = "dlq_publish"]
    /\ UNCHANGED <<ready, unacked, dlq, redis, attempt, faults,
                   sent, succeeded, marks, expired, republished, lost, settled,
                   decisions>>

\* (variant: the failed delivery is acknowledged and nothing is published)
handle_failure_drop(w) ==
    /\ pc[w] = "fail"
    /\ basic_ack(w)
    /\ Return(w)
    /\ UNCHANGED <<ready, dlq, redis, attempt, sleeping, faults,
                   sent, succeeded, marks, expired, failures, republished, lost,
                   settled>>

\* The except branch of process_message: basic_ack of the original
\* delivery, then handle_failure up to its branch.
handle_failure(w) ==
    /\ pc[w] = "fail"
    /\ basic_ack(w)
    /\ LET t == incremented(Head(task[w])) IN
          /\ task' = [task EXCEPT ![w] = <<t>>]
          /\ failures' = failures (+) One(t)
          /\ IF retry_allowed(t)
             THEN /\ sleeping' = [sleeping EXCEPT ![w] = delay(t)]
                  /\ pc' = [pc EXCEPT ![w] = "sleep"]
             ELSE /\ sleeping' = sleeping
                  /\ pc' = [pc EXCEPT ![w] = "dlq_publish"]
    /\ UNCHANGED <<ready, dlq, redis, attempt, faults,
                   sent, succeeded, marks, expired, republished, lost, settled>>

\* time.sleep(delay) is over; _republish_task publishes the task to
\* task_exchange and handle_failure, then process_message, return.
republish_task(w) ==
    /\ pc[w] = "sleep"
    /\ Routed(EXCHANGE_NAME, ROUTING_KEY, model_dump_json(Head(task[w])),
              "explicit")
    /\ republished' = republished (+) One(Head(task[w]))
    /\ Return(w)
    /\ sleeping' = [sleeping EXCEPT ![w] = 0]
    /\ UNCHANGED <<unacked, redis, attempt, faults,
                   sent, succeeded, marks, expired, failures, lost, settled,
                   decisions>>

\* _publish_to_dlq publishes the task to dlq_exchange with an empty routing
\* key and everything returns.
publish_to_dlq(w) ==
    /\ pc[w] = "dlq_publish"
    /\ Routed(DLQ_EXCHANGE, "", model_dump_json(Head(task[w])), "explicit")
    /\ Return(w)
    /\ UNCHANGED <<unacked, redis, attempt, sleeping, faults,
                   sent, succeeded, marks, expired, failures, republished, lost,
                   settled, decisions>>

\* (variant: the publish error is caught and logged, and process_message
\* returns)
publish_raises_swallowed(w) ==
    /\ pc[w] \in {"sleep", "dlq_publish"}
    /\ faults < MaxFaults
    /\ faults' = faults + 1
    /\ lost' = lost (+) One(Head(task[w]))
    /\ Return(w)
    /\ sleeping' = [sleeping EXCEPT ![w] = 0]
    /\ UNCHANGED <<ready, unacked, dlq, redis, attempt,
                   sent, succeeded, marks, expired, failures, republished,
                   settled, decisions>>

\* _get_connection or basic_publish raises AMQPConnectionError inside
\* _republish_task or _publish_to_dlq: nothing catches it below start_worker.
publish_raises(w) ==
    /\ pc[w] \in {"sleep", "dlq_publish"}
    /\ faults < MaxFaults
    /\ faults' = faults + 1
    /\ lost' = lost (+) One(Head(task[w]))
    /\ Escapes(w, "AMQPConnectionError")
    /\ UNCHANGED <<dlq, redis,
                   sent, succeeded, marks, expired, failures, republished,
                   settled, decisions>>

\* ------------------------------------------------------ specification --
Next ==
    \/ \E req \in Requests : publish_task(req)
    \/ \E b \in MalformedBodies : PublishRaw(b)
    \/ \E k \in redis : Expire(k)
    \/ \E w \in Workers :
          \/ Connect(w)
          \/ Deliver(w)
          \/ Crash(w)
          \/ process_message_parse(w)
          \/ process_message_dispatch(w)
          \/ is_duplicate_raises(w)
          \/ run_handler(w)
          \/ mark_processed(w)
          \/ mark_processed_raises(w)
          \/ ack_success(w)
          \/ handle_failure(w)
          \/ republish_task(w)
          \/ publish_to_dlq(w)
          \/ publish_raises(w)

Spec == Init /\ [][Next]_vars

\* The workers keep running and the broker is reachable: no process is
\* killed and neither the idempotency check nor a publish raises.
LiveNext ==
    \/ \E req \in Requests : publish_task(req)
    \/ \E b \in MalformedBodies : PublishRaw(b)
    \/ \E k \in redis : Expire(k)
    \/ \E w \in Workers :
          \/ Deliver(w)
          \/ process_message_parse(w)
          \/ process_message_dispatch(w)
          \/ run_handler(w)
          \/ mark_processed(w)
          \/ mark_processed_raises(w)
          \/ ack_success(w)
          \/ handle_failure(w)
          \/ republish_task(w)
          \/ publish_to_dlq(w)

\* What a running worker process and the broker do on their own: the broker
\* delivers to a consuming worker, the worker's code runs on, a sleep ends.
WorkerStep ==
    \E w \in Workers :
       \/ Deliver(w)
       \/ process_message_parse(w)
       \/ process_message_dispatch(w)
       \/ run_handler(w)
       \/ mark_processed(w)
       \/ ack_success(w)
       \/ handle_failure(w)
       \/ republish_task(w)
       \/ publish_to_dlq(w)

LiveSpec == Init /\ [][LiveNext]_vars /\ WF_vars(WorkerStep)

\* The same, with the stop signal arriving at any moment.
StopNext ==
    \/ LiveNext
    \/ \E w \in Workers : KeyboardInterrupt(w)

StopSpec == Init /\ [][StopNext]_vars

\* The requests of the startup runs: one task that succeeds and one that
\* fails straight into the dead-letter publish.
StartRequests ==
    { TaskPayload("t1", "send_email", 0, None),
      TaskPayload("t2", "fail_task", 0, <<0>>) }

\* Every worker process is at the top of start_worker.
StartInit ==
    /\ ready = EmptyBag
    /\ unacked = [w \in Workers |-> <<>>]
    /\ dlq = EmptyBag
    /\ redis = {}
    /\ pc = [w \in Workers |-> "connect"]
    /\ task = [w \in Workers |-> <<>>]
    /\ attempt = [w \in Workers |-> 1]
    /\ sleeping = [w \in Workers |-> 0]
    /\ faults = 0
    /\ sent = EmptyBag
    /\ succeeded = EmptyBag
    /\ marks = EmptyBag
    /\ expired = {}
    /\ failures = EmptyBag
    /\ republished = EmptyBag
    /\ lost = EmptyBag
    /\ settled = EmptyBag
    /\ decisions = EmptyBag

\* start_worker from its first attempt, with a broker that may be unreachable
\* at any attempt and at any later publish.
StartNext ==
    \/ \E req \in StartRequests : publish_task(req)
    \/ \E w \in Workers :
          \/ get_connection_raises(w)
          \/ Connect(w)
          \/ Deliver(w)
          \/ process_message_parse(w)
          \/ process_message_dispatch(w)
          \/ run_handler(w)
          \/ mark_processed(w)
          \/ ack_success(w)
          \/ handle_failure(w)
          \/ publish_to_dlq(w)
          \/ publish_raises(w)

StartSpec == StartInit /\ [][StartNext]_vars

\* ------------------------------------------------------------- claims --
\* Vocabulary of the claims, stated apart from the operators above.
\* The names registered as task types.
RegisteredTypes == {"send_email", "resize_image", "process_payment", "fail_task"}

\* The retry budget of an envelope: its max_retries when present, else the
\* process-wide default.
Budget(e) == IF e.max_retries = None THEN MAX_RETRIES ELSE Head(e.max_retries)

\* Number of elements of bag B that carry task_id t.
CountOf(B, t) ==
    BagCardinality([x \in {y \in DOMAIN B : y.task_id = t} |-> B[x]])

\* Number of workers at position p holding exactly the task e.
Pending(e, p) == Cardinality({w \in Workers : pc[w] = p /\ task[w] = <<e>>})

Explicit(e) == [body |-> model_dump_json(e), via |-> "explicit"]

\* task_id t was published by clients exactly once.
SentOnce(t) == CountOf(sent, t) = 1

\* ... and that one envelope was a well-formed task with retry_count 0.
SentOnceFresh(t) ==
    /\ SentOnce(t)
    /\ \A b \in DOMAIN sent :
          b.task_id = t => b.retry_count = 0 /\ b \notin MalformedBodies

\* No copy of task_id t is in the main queue, unacknowledged at a worker, or
\* in a worker's hands.
GoneFromMain(t) ==
    /\ CountOf(ready, t) = 0
    /\ \A w \in Workers :
          /\ unacked[w] # <<>> => Head(unacked[w]).task_id # t
          /\ task[w] # <<>> => Head(task[w]).task_id # t

DuplicateAcked ==
    [][\A w \in Workers :
          ( /\ pc[w] = "dedup"
            /\ key(Head(task[w]).task_id) \in redis
            /\ pc'[w] \notin {"dedup", "dead", "killed"} )
          => /\ pc'[w] = "idle"
             /\ unacked'[w] = <<>>
             /\ ready' = ready /\ dlq' = dlq
             /\ redis' = redis /\ marks' = marks
             /\ succeeded' = succeeded
             /\ failures' = failures /\ republished' = republished]_vars

\* The same send_email task was published twice and both deliveries are
\* settled without a fault: one handler call, one mark, nothing else.
DuplicateAckedWitness ==
    /\ CopiesIn(model_dump_json(TaskPayload("t1", "send_email", 0, None)), sent) = 2
    /\ faults = 0 /\ ready = EmptyBag /\ dlq = EmptyBag /\ expired = {}
    /\ \A w \in Workers : pc[w] = "idle" /\ unacked[w] = <<>>
    /\ CopiesIn("t1", succeeded) = 1
    /\ CopiesIn("t1", marks) = 1
    /\ key("t1") \in redis

\* C4 as claimed, for a task_id published once: while its record has never
\* expired, the handler completes successfully at most once for it.
EffectivelyOnce ==
    \A t \in TaskIds :
       SentOnce(t) /\ key(t) \notin expired => CopiesIn(t, succeeded) <= 1

\* C4 as amended: a handler is started for a task_id only by a delivery whose
\* idempotency check ran while the store held no record for it.  (The check
\* and the later mark_processed are separate steps, so a delivery that passed
\* the check before the record was written still runs its handler.)
EffectivelyOnceAfterMark ==
    [][\A w \in Workers :
          pc[w] # "handler" /\ pc'[w] = "handler"
          => key(Head(task'[w]).task_id) \notin redis]_vars

\* A task_id published once whose handler completed twice, the record being
\* written only after the first completion was lost with its process.
EffectivelyOnceAfterMarkWitness ==
    \E t \in TaskIds :
       /\ SentOnce(t)
       /\ CopiesIn(t, succeeded) = 2
       /\ CopiesIn(t, marks) = 1
       /\ key(t) \in redis
       /\ \E w \in Workers : pc[w] = "killed"

\* The position of a worker that has left process_message by settling its
\* delivery (not by an exception or a kill).
Returned(w) == pc'[w] \notin {pc[w], "dead", "killed", "connect"}

\* C5: a delivery whose body is no TaskPayload is nacked without requeue and
\* process_message returns: the body goes to the dead-letter queue by the
\* broker's native path and not back to the main queue, the worker is idle
\* with no unacknowledged delivery (ready for the next message), it never
\* reaches the idempotency check or a handler, and the store, the retry
\* handler and the loop counter are untouched.
MalformedRejected ==
    [][\A w \in Workers :
          ( /\ pc[w] = "recv"
            /\ Head(unacked[w]) \in MalformedBodies
            /\ Returned(w) )
          => /\ pc'[w] = "idle"
             /\ unacked'[w] = <<>>
             /\ dlq' = dlq (+) One([body |-> Head(unacked[w]), via |-> "native"])
             /\ ready' = ready
             /\ redis' = redis /\ marks' = marks
             /\ succeeded' = succeeded
             /\ failures' = failures /\ republished' = republished
             /\ attempt' = attempt]_vars

\* Bytes that are not JSON were dead-lettered natively, and a valid task
\* published along with them was processed and marked; nothing failed.
MalformedRejectedWitness ==
    /\ \E d \in DOMAIN dlq : d.via = "native" /\ d.body.json = "invalid"
    /\ BagCardinality(sent) = 2
    /\ CopiesIn("t1", marks) = 1
    /\ faults = 0 /\ ready = EmptyBag
    /\ \A w \in Workers : pc[w] = "idle" /\ unacked[w] = <<>>

\* The effect C6 claims for a delivery with an unregistered task_type.
NackedToDeadLetter(w) ==
    /\ pc'[w] = "idle"
    /\ unacked'[w] = <<>>
    /\ dlq' = dlq (+) One([body |-> Head(unacked[w]), via |-> "native"])
    /\ ready' = ready
    /\ redis' = redis /\ marks' = marks
    /\ succeeded' = succeeded
    /\ failures' = failures /\ republished' = republished

\* C6 as claimed: every well-formed delivery whose task_type has no handler
\* is nacked without requeue into the dead-letter queue, with no handler, no
\* mark, no retry_count increment and no republish.
UnknownTypeRejected ==
    [][\A w \in Workers :
          ( /\ pc[w] = "dedup"
            /\ Head(task[w]).task_type \notin RegisteredTypes
            /\ Returned(w) )
          => NackedToDeadLetter(w)]_vars

\* C6 as amended: ... whose task_id has no record in the dedup store (the
\* idempotency check comes first; with a record the delivery is acked as a
\* duplicate and is not dead-lettered).
UnknownTypeRejectedUnlessDuplicate ==
    [][\A w \in Workers :
          ( /\ pc[w] = "dedup"
            /\ Head(task[w]).task_type \notin RegisteredTypes
            /\ key(Head(task[w]).task_id) \notin redis
            /\ Returned(w) )
          => NackedToDeadLetter(w)]_vars

\* A task of an unregistered type sits in the dead-letter queue by the native
\* path with the retry_count it was published with; its task_id was never
\* marked and nothing was handed to the retry handler.
UnknownTypeRejectedWitness ==
    /\ [body |-> model_dump_json(TaskPayload("t2", "no_such_type", 0, None)),
        via |-> "native"] \in DOMAIN dlq
    /\ CopiesIn("t2", marks) = 0
    /\ failures = EmptyBag

\* C7: a task_id is marked processed only after a handler call for it has
\* returned: each setex is covered by a handler success of its own, and a
\* task_id whose record is in the store has a handler success.
MarkedOnlyAfterSuccess ==
    /\ \A t \in DOMAIN marks : CopiesIn(t, marks) <= CopiesIn(t, succeeded)
    /\ \A k \in redis : \E t \in DOMAIN succeeded : k = key(t)

\* t1 is marked; t2 failed into the retry handler and was dead-lettered, and
\* has no record.
MarkedOnlyAfterSuccessWitness ==
    /\ key("t1") \in redis
    /\ key("t2") \notin redis /\ CopiesIn("t2", marks) = 0
    /\ CountOf(failures, "t2") >= 1
    /\ \E d \in DOMAIN dlq : d.body.task_id = "t2"

\* Copies of task_id t the system holds for another attempt: ready in the
\* main queue, unacknowledged at a worker, or acknowledged and waiting in a
\* worker's backoff to be republished.
CopiesInFlight(t) ==
    CountOf(ready, t)
    + Cardinality({w \in Workers :
                      unacked[w] # <<>> /\ Head(unacked[w]).task_id = t})
    + Cardinality({w \in Workers :
                      /\ unacked[w] = <<>> /\ pc[w] = "sleep"
                      /\ Head(task[w]).task_id = t})

HandlersRunning(t) ==
    Cardinality({w \in Workers : pc[w] = "handler" /\ Head(task[w]).task_id = t})

\* C8: retrying never multiplies a task: the copies of a task_id in flight,
\* and the handler calls in progress for it, never exceed the number of times
\* clients published it; for a task published once there is at most one copy
\* and at most one handler call at any moment, whatever the number of workers.
OneCopyPerTask ==
    \A t \in TaskIds :
       /\ CopiesInFlight(t) <= CountOf(sent, t)
       /\ HandlersRunning(t) <= CountOf(sent, t)

\* A task published once has been republished (with retry_count 1) and its
\* second attempt is in a handler.
OneCopyPerTaskWitness ==
    /\ SentOnceFresh("t1")
    /\ CountOf(republished, "t1") = 1
    /\ HandlersRunning("t1") = 1
    /\ CopiesInFlight("t1") = 1

\* C9: no exception leaves process_message: no worker is ended by one, and
\* none is back in start_worker's connection loop.
NoExceptionEscapes == \A w \in Workers : pc[w] \notin {"dead", "connect"}

\* C10: a well-formed task that clients published and that has neither
\* completed nor been dead-lettered is held by the broker (ready or
\* unacknowledged), or at least by a live worker that is about to publish it.
NoLostWork ==
    \A b \in DOMAIN sent :
       b \notin MalformedBodies =>
          \/ CopiesIn(b.task_id, succeeded) >= 1
          \/ \E d \in DOMAIN dlq : d.body.task_id = b.task_id
          \/ CountOf(ready, b.task_id) >= 1
          \/ \E w \in Workers :
                unacked[w] # <<>> /\ Head(unacked[w]).task_id = b.task_id
          \/ \E w \in Workers :
                /\ pc[w] \in {"sleep", "dlq_publish"}
                /\ Head(task[w]).task_id = b.task_id

\* No message is anywhere between the main queue and its end: the queue is
\* empty and every worker is between two messages.
Quiescent ==
    /\ ready = EmptyBag
    /\ \A w \in Workers : pc[w] = "idle" /\ unacked[w] = <<>>

\* The task_id field of the bodies clients publish.
BodyIds == TaskIds \cup {""}

\* Number of entries of the bag B of [body, ...] records whose body carries
\* task_id t.
CountOfBody(B, t) ==
    BagCardinality([x \in {y \in DOMAIN B : y.body.task_id = t} |-> B[x]])

Native(b) == [body |-> b, via |-> "native"]

AsDuplicate(b) == [body |-> b, how |-> "duplicate"]

\* A body that parses and names a task type without a handler.
UnknownType(b) == b \notin MalformedBodies /\ b.task_type \notin RegisteredTypes

\* Every message clients published has ended exactly once: per task_id, as
\* many ends (acked for good, or in the dead-letter queue) as messages.
EndedOnce ==
    \A t \in BodyIds :
       CountOf(sent, t) = CountOfBody(settled, t) + CountOfBody(dlq, t)

\* How a message ends, by its kind.  A malformed body is dead-lettered by
\* the broker; a task acked as success has a registered type and its
\* task_id was marked; a task dead-lettered by publish has a registered type
\* and is over its budget.
EndsByKind ==
    /\ \A b \in DOMAIN sent :
          b \in MalformedBodies => CopiesIn(b, sent) = CopiesIn(Native(b), dlq)
    /\ \A e \in DOMAIN settled :
          /\ e.body \notin MalformedBodies
          /\ e.how = "success" =>
                /\ e.body.task_type \in RegisteredTypes
                /\ CopiesIn(e.body.task_id, marks) >= 1
          /\ e.how = "duplicate" => CopiesIn(e.body.task_id, marks) >= 1
    /\ \A d \in DOMAIN dlq :
          d.via = "explicit" =>
             /\ d.body.task_type \in RegisteredTypes
             /\ d.body.retry_count > Budget(d.body)

\* C11 as claimed: under weak fairness, with running workers and a broker
\* that takes every publish, the system comes to rest for good with every
\* message ended exactly once: a well-formed task of a registered type acked
\* (its task_id marked) or dead-lettered over its budget, and every malformed
\* and every unknown-type message in the dead-letter queue.
EveryMessageEnds ==
    /\ <>[]Quiescent
    /\ [](Quiescent =>
            /\ EndedOnce
            /\ EndsByKind
            /\ \A b \in DOMAIN sent :
                  UnknownType(b) => CopiesIn(b, sent) = CopiesIn(Native(b), dlq))

\* C11 as amended: ... and every unknown-type message either in the
\* dead-letter queue or, when its task_id had a record in the dedup store at
\* its idempotency check, acked as a duplicate.
EveryMessageEndsOrDuplicate ==
    /\ <>[]Quiescent
    /\ [](Quiescent =>
            /\ EndedOnce
            /\ EndsByKind
            /\ \A b \in DOMAIN sent :
                  UnknownType(b) =>
                     CopiesIn(b, sent) =
                        CopiesIn(Native(b), dlq) + CopiesIn(AsDuplicate(b), settled))

\* At rest after two messages: the send_email task acked as success, the
\* always-failing task dead-lettered after its three retries.
EveryMessageEndsOrDuplicateWitness ==
    /\ Quiescent
    /\ BagCardinality(sent) = 2
    /\ [body |-> model_dump_json(TaskPayload("t1", "send_email", 0, None)),
        how |-> "success"] \in DOMAIN settled
    /\ Explicit(TaskPayload("t2", "fail_task", MAX_RETRIES + 1, None))
          \in DOMAIN dlq
    /\ CountOf(republished, "t2") = MAX_RETRIES

\* C12: the stop signal takes effect only between two messages: a worker
\* that stops was waiting for the next delivery, with no unacknowledged
\* delivery, no task in hand and no publish owed.
StopsAtLoopBoundary ==
    [][\A w \in Workers :
          pc'[w] = "stopped" /\ pc[w] # "stopped"
          => pc[w] = "idle" /\ unacked[w] = <<>> /\ task[w] = <<>>]_vars

\* C13: start_worker's loop variable stays within 1 .. STARTUP_RETRY_ATTEMPTS;
\* a worker about to connect has consumed nothing it still holds, and has
\* waited STARTUP_RETRY_DELAY unless this is its first attempt; a failed
\* attempt moves to the next one, and only a failure of the last attempt
\* ends the process; a successful attempt starts consuming with the loop
\* variable unchanged, and a delivery is taken only by a worker that has
\* connected.
BoundedStartup ==
    /\ [](\A w \in Workers :
            /\ attempt[w] \in 1 .. STARTUP_RETRY_ATTEMPTS
            /\ pc[w] = "connect" =>
                  /\ unacked[w] = <<>> /\ task[w] = <<>>
                  /\ sleeping[w] = IF attempt[w] = 1 THEN 0
                                   ELSE STARTUP_RETRY_DELAY
            /\ pc[w] = "dead" =>
                  attempt[w] = STARTUP_RETRY_ATTEMPTS /\ unacked[w] = <<>>)
    /\ [][\A w \in Workers :
            /\ pc[w] = "connect" =>
                  \/ pc'[w] = "connect" /\ attempt'[w] = attempt[w]
                  \/ pc'[w] = "connect" /\ attempt'[w] = attempt[w] + 1
                  \/ pc'[w] = "idle" /\ attempt'[w] = attempt[w]
                  \/ pc'[w] = "dead" /\ attempt[w] = STARTUP_RETRY_ATTEMPTS
            /\ pc'[w] = "recv" /\ pc[w] # "recv" => pc[w] = "idle"
            /\ pc[w] = "dead" => pc'[w] = "dead" /\ unacked'[w] = <<>>]_vars

\* One worker failed all ten attempts and is gone, having consumed nothing
\* (no publish ever raised); the other connected at its third attempt and
\* has processed a task.
BoundedStartupWitness ==
    /\ pc["w1"] = "dead" /\ attempt["w1"] = STARTUP_RETRY_ATTEMPTS
    /\ faults = 0
    /\ pc["w2"] = "idle" /\ attempt["w2"] = 3
    /\ settled # EmptyBag

\* An envelope that always fails and runs on the process-wide budget.
AlwaysFailing(b) ==
    /\ b \notin MalformedBodies
    /\ b.task_type = "fail_task"
    /\ b.max_retries = None

FixedFields == {"task_id", "task_type", "payload", "created_at", "max_retries"}

SameFixedFields(a, b) == \A f \in FixedFields : a[f] = b[f]

SameEnvelope(a, b) == SameFixedFields(a, b) /\ a.retry_count = b.retry_count

\* The envelope e descends from a message clients published: same fixed
\* fields, and a retry_count not below the published one.
HasOrigin(e) ==
    \E b \in DOMAIN sent :
       /\ b \notin MalformedBodies
       /\ SameFixedFields(e, b)
       /\ e.retry_count >= b.retry_count

\* C15: the task a worker parses has every field of the delivered body; while
\* a worker holds a task its fixed fields stay as they are and retry_count
\* never decreases, changing only in the step that enters handle_failure and
\* only by +1; what the worker publishes (to the main exchange or the
\* dead-letter exchange) is the task it holds, field by field, and what the
\* broker requeues or dead-letters is the delivered body; and every envelope
\* a worker holds, fails or republishes has the fixed fields of a message
\* clients published, with a retry_count not below that message's.
EnvelopeImmutable ==
    /\ [](/\ \A w \in Workers : task[w] # <<>> => HasOrigin(Head(task[w]))
          /\ \A e \in DOMAIN failures : HasOrigin(e)
          /\ \A e \in DOMAIN republished : HasOrigin(e))
    /\ [][/\ \A w \in Workers :
               /\ pc[w] = "recv" /\ task'[w] # <<>> =>
                     SameEnvelope(Head(task'[w]), Head(unacked[w]))
               /\ task[w] # <<>> /\ task'[w] # <<>> =>
                     /\ SameFixedFields(Head(task'[w]), Head(task[w]))
                     /\ Head(task'[w]).retry_count >= Head(task[w]).retry_count
                     /\ Head(task'[w]).retry_count # Head(task[w]).retry_count =>
                           /\ pc[w] = "fail"
                           /\ pc'[w] \in {"sleep", "dlq_publish"}
                           /\ Head(task'[w]).retry_count =
                                 Head(task[w]).retry_count + 1
          /\ \A b \in DOMAIN ready' :
               CopiesIn(b, ready') > CopiesIn(b, ready) =>
                  \/ CopiesIn(b, sent') > CopiesIn(b, sent)
                  \/ \E w \in Workers : unacked[w] = <<b>> /\ unacked'[w] = <<>>
                  \/ \E w \in Workers :
                        /\ pc[w] = "sleep" /\ pc'[w] = "idle"
                        /\ b \notin MalformedBodies
                        /\ SameEnvelope(b, Head(task[w]))
          /\ \A d \in DOMAIN dlq' :
               CopiesIn(d, dlq') > CopiesIn(d, dlq) =>
                  \/ /\ d.via = "native"
                     /\ \E w \in Workers :
                           unacked[w] = <<d.body>> /\ unacked'[w] = <<>>
                  \/ /\ d.via = "explicit"
                     /\ d.body \notin MalformedBodies
                     /\ \E w \in Workers :
                           /\ pc[w] = "dlq_publish" /\ pc'[w] = "idle"
                           /\ SameEnvelope(d.body, Head(task[w]))]_vars

\* The task published with its own budget of 1 has been through the retry
\* handler twice: republished with retry_count 1, dead-lettered with 2, the
\* other fields as published.
EnvelopeImmutableWitness ==
    /\ SentOnceFresh("t1")
    /\ TaskPayload("t1", "fail_task", 1, <<1>>) \in DOMAIN republished
    /\ Explicit(TaskPayload("t1", "fail_task", 2, <<1>>)) \in DOMAIN dlq

\* C16: when the publish of _republish_task or _publish_to_dlq raises, the
\* error leaves process_message (the worker is back in start_worker's except
\* clause, or ended by it on the last attempt): the delivery was already
\* acked, nothing is published to either queue in its place, the task is
\* counted lost, and for a task_id published once no copy is left in the
\* main queue, at a worker or in the dead-letter queue.
PublishFailurePropagates ==
    [][\A w \in Workers :
          ( /\ pc[w] \in {"sleep", "dlq_publish"}
            /\ faults' # faults
            /\ pc'[w] \notin {pc[w], "killed"} )
          => /\ pc'[w] \in {"connect", "dead"}
             /\ pc'[w] = "dead" <=> attempt[w] = STARTUP_RETRY_ATTEMPTS
             /\ unacked[w] = <<>> /\ unacked'[w] = <<>>
             /\ ready' = ready /\ dlq' = dlq
             /\ republished' = republished
             /\ lost' = lost (+) One(Head(task[w]))
             /\ task'[w] = <<>>
             /\ SentOnce(Head(task[w]).task_id) =>
                   /\ CountOf(ready', Head(task[w]).task_id) = 0
                   /\ CountOfBody(dlq', Head(task[w]).task_id) = 0
                   /\ \A v \in Workers :
                         /\ unacked'[v] # <<>> =>
                               Head(unacked'[v]).task_id # Head(task[w]).task_id
                         /\ task'[v] # <<>> =>
                               Head(task'[v]).task_id # Head(task[w]).task_id]_vars

\* The republish of a task published once raised: its worker is back in the
\* connection loop, no process was killed, and the task is in neither queue.
PublishFailurePropagatesWitness ==
    \E w \in Workers :
       /\ pc[w] = "connect" /\ attempt[w] = 2
       /\ faults = 1
       /\ \A v \in Workers : pc[v] # "killed"
       /\ TaskPayload("t2", "fail_task", 1, None) \in DOMAIN lost
       /\ SentOnce("t2")
       /\ CountOf(ready, "t2") = 0
       /\ CountOfBody(dlq, "t2") = 0
       /\ unacked = [v \in Workers |-> <<>>]

\* C17: the main queue dead-letters to the dead-letter exchange, and that
\* exchange routes to the dead-letter queue alone, whether the message comes
\* with the routing key of the main queue (the broker's path) or with an
\* empty one (the explicit publish); so a delivery nacked without requeue
\* and a task handed to _publish_to_dlq both become one more entry of the
\* dead-letter queue and nothing more in the main queue, and no entry ever
\* leaves the dead-letter queue.
OneDeadLetterQueue ==
    /\ [](/\ DeadLetterExchange[TASK_QUEUE] = <<DLQ_EXCHANGE>>
          /\ Route(DLQ_EXCHANGE, ROUTING_KEY) = {DLQ_QUEUE}
          /\ Route(DLQ_EXCHANGE, "") = {DLQ_QUEUE})
    /\ [][/\ \A w \in Workers :
               /\ ( /\ pc[w] \in {"recv", "dedup"} /\ pc'[w] = "idle"
                    /\ unacked'[w] = <<>> /\ settled' = settled )
                  => /\ dlq' = dlq (+) One(Native(Head(unacked[w])))
                     /\ ready' = ready
               /\ pc[w] = "dlq_publish" /\ pc'[w] = "idle"
                  => /\ dlq' = dlq (+) One(Explicit(Head(task[w])))
                     /\ ready' = ready
          /\ \A d \in DOMAIN dlq : CopiesIn(d, dlq') >= CopiesIn(d, dlq)
          /\ dlq' # dlq => ready' = ready]_vars

\* The dead-letter queue holds a malformed body the broker dead-lettered and
\* a task the retry handler published, and the main queue is empty.
OneDeadLetterQueueWitness ==
    /\ \E d \in DOMAIN dlq : d.via = "native" /\ d.body \in MalformedBodies
    /\ \E d \in DOMAIN dlq : d.via = "explicit" /\ d.body.task_id = "t2"
    /\ BagCardinality(dlq) = 2
    /\ Quiescent

\* C18: a worker inside process_message before the ack holds exactly the one
\* delivery it is processing; in the backoff or the dead-letter publish it
\* holds its task and no delivery; outside process_message it holds nothing;
\* a delivery reaches the callback only when the worker is between two
\* messages; and from a handler failure to the end of the republish or
\* dead-letter publish the worker takes no other message.
SequentialProcessing ==
    /\ [](\A w \in Workers :
            /\ pc[w] = "recv" => unacked[w] # <<>> /\ task[w] = <<>>
            /\ pc[w] \in {"dedup", "handler", "mark", "ack", "fail"} =>
                  /\ unacked[w] # <<>> /\ task[w] # <<>>
                  /\ Head(task[w]).task_id = Head(unacked[w]).task_id
            /\ pc[w] \in {"sleep", "dlq_publish"} =>
                  unacked[w] = <<>> /\ task[w] # <<>>
            /\ pc[w] \in {"idle", "connect", "dead", "killed"} =>
                  unacked[w] = <<>> /\ task[w] = <<>>)
    /\ [][\A w \in Workers :
            /\ pc'[w] = "recv" /\ pc[w] # "recv" =>
                  pc[w] = "idle" /\ unacked[w] = <<>> /\ task[w] = <<>>
            /\ unacked[w] # <<>> /\ unacked'[w] # <<>> =>
                  unacked'[w] = unacked[w]
            /\ pc[w] \in {"fail", "sleep", "dlq_publish"} =>
                  /\ pc'[w] # "recv"
                  /\ unacked'[w] \in {<<>>, unacked[w]}
                  /\ pc'[w] # "fail" => unacked'[w] = <<>>
                  /\ pc'[w] \in {"sleep", "dlq_publish"} =>
                        Head(task'[w]).task_id = Head(task[w]).task_id]_vars

\* One worker waits in its backoff while the second message is still in the
\* main queue and the other worker is free.
SequentialProcessingWitness ==
    /\ pc["w1"] = "sleep" /\ sleeping["w1"] = 2
    /\ pc["w2"] = "idle"
    /\ BagCardinality(ready) = 1
    /\ BagCardinality(sent) = 2

\* C19: a worker about to ack on the success path still holds the delivery
\* and has written the record of its task_id (which is in the store unless
\* it has expired since); every delivery acked as success had its task_id
\* marked; a process killed between the write and the ack leaves the record
\* in the store and the message back in the main queue; and a delivery
\* checked while the record is there is acked as a duplicate with no handler
\* call.
MarkBeforeAck ==
    /\ [](/\ \A w \in Workers :
               pc[w] = "ack" =>
                  /\ unacked[w] # <<>>
                  /\ CopiesIn(Head(unacked[w]).task_id, marks) >= 1
                  /\ \/ key(Head(unacked[w]).task_id) \in redis
                     \/ key(Head(unacked[w]).task_id) \in expired
          /\ \A e \in DOMAIN settled :
               e.how = "success" => CopiesIn(e.body.task_id, marks) >= 1)
    /\ [][\A w \in Workers :
            /\ pc[w] = "ack" /\ pc'[w] = "killed" =>
                  /\ CopiesIn(Head(unacked[w]), ready')
                        = CopiesIn(Head(unacked[w]), ready) + 1
                  /\ redis' = redis
            /\ ( /\ pc[w] = "dedup"
                 /\ key(Head(unacked[w]).task_id) \in redis
                 /\ Returned(w) )
               => /\ pc'[w] = "idle" /\ unacked'[w] = <<>>
                  /\ succeeded' = succeeded /\ marks' = marks
                  /\ settled' = settled (+) One(AsDuplicate(Head(unacked[w])))]_vars

\* A task published once: its handler returned once, the record was written
\* once, the process was killed before the ack, and the redelivery was acked
\* as a duplicate by the other worker.
MarkBeforeAckWitness ==
    /\ SentOnceFresh("t1")
    /\ \E w \in Workers : pc[w] = "killed"
    /\ CopiesIn("t1", succeeded) = 1
    /\ CopiesIn("t1", marks) = 1
    /\ settled = One(AsDuplicate(model_dump_json(
                        TaskPayload("t1", "send_email", 0, None))))
    /\ ready = EmptyBag

\* C20: the budget handle_failure applies is the envelope's max_retries when
\* the field is present (0 included) and MAX_RETRIES only when it is absent:
\* a failure is retried (backoff, republish) exactly when the incremented
\* retry_count is within that budget and dead-lettered otherwise; a task
\* with max_retries 0 is never in a backoff and never republished, each of
\* its failures goes to the dead-letter publish with no wait, and when
\* published once with retry_count 0 it fails at most once.
EnvelopeBudgetFirst ==
    /\ \A e \in DOMAIN failures :
          LET budget == IF e.max_retries = None THEN MAX_RETRIES
                        ELSE Head(e.max_retries)
              retried == CopiesIn(e, republished) + Pending(e, "sleep")
              buried == CopiesIn(Explicit(e), dlq) + Pending(e, "dlq_publish")
          IN  /\ e.retry_count <= budget => buried = 0
              /\ e.retry_count > budget => retried = 0
              /\ e.max_retries = <<0>> =>
                    /\ retried = 0
                    /\ CopiesIn(e, failures) = buried + CopiesIn(e, lost)
    /\ \A w \in Workers :
          /\ pc[w] = "sleep" => Head(task[w]).max_retries # <<0>>
          /\ pc[w] = "dlq_publish" => sleeping[w] = 0
    /\ \A b \in DOMAIN sent :
          ( /\ b \notin MalformedBodies
            /\ b.max_retries = <<0>>
            /\ SentOnceFresh(b.task_id) )
          => /\ CountOf(failures, b.task_id) <= 1
             /\ CountOf(republished, b.task_id) = 0

\* The task published with max_retries 0 failed once and is in the
\* dead-letter queue with retry_count 1; nothing was ever republished.
EnvelopeBudgetFirstWitness ==
    /\ SentOnceFresh("t2")
    /\ Explicit(TaskPayload("t2", "fail_task", 1, <<0>>)) \in DOMAIN dlq
    /\ CountOf(failures, "t2") = 1
    /\ republished = EmptyBag
    /\ faults = 0

\* Copies of the failed envelope e that were, or are about to be, republished
\* to the main exchange / published to the dead-letter exchange.
Retried(e) == CopiesIn(e, republished) + Pending(e, "sleep")

Buried(e) == CopiesIn(Explicit(e), dlq) + Pending(e, "dlq_publish")

ProducerStartsAtZero ==
    /\ \A b \in DOMAIN sent : b \notin MalformedBodies => b.retry_count = 0
    /\ \A w \in Workers : task[w] # <<>> => Head(task[w]).retry_count >= 0

\* The task types whose handler raises.
FailingTypes == {"fail_task"}

\* C23: the retry handler is entered only for a delivery whose handler
\* raised: every envelope handle_failure has taken, republished or published
\* to the dead-letter exchange is of a type whose handler fails, and no
\* task_id is both completed by its handler and counted as failed without a
\* handler of its type ever raising.
RetryOnlyAfterHandlerFailure ==
    /\ \A e \in DOMAIN failures : e.task_type \in FailingTypes
    /\ \A e \in DOMAIN republished : e.task_type \in FailingTypes
    /\ \A d \in DOMAIN dlq :
          d.via = "explicit" => d.body.task_type \in FailingTypes
    /\ \A w \in Workers :
          pc[w] \in {"fail", "sleep", "dlq_publish"} =>
             Head(task[w]).task_type \in FailingTypes

Decision(w, kind) == [delivery |-> unacked[w], kind |-> kind, requeue |-> FALSE]

Consuming(w) == pc[w] \notin {"connect", "dead", "killed", "stopped"}

\* C25: the connection-attempt counter of one worker process never goes
\* down and never passes STARTUP_RETRY_ATTEMPTS; a worker thrown back to
\* connecting while it was consuming has used one more attempt; and a
\* publish that raises a connection error while the worker consumes on its
\* last attempt ends the process, where on an earlier attempt it reconnects.
AttemptsNeverReset ==
    /\ [](\A w \in Workers : attempt[w] <= STARTUP_RETRY_ATTEMPTS)
    /\ [][\A w \in Workers :
            /\ attempt'[w] >= attempt[w]
            /\ Consuming(w) /\ pc'[w] = "connect" =>
                  attempt'[w] = attempt[w] + 1
            /\ Consuming(w) /\ pc'[w] = "dead" =>
                  attempt[w] = STARTUP_RETRY_ATTEMPTS
            /\ pc[w] \in {"sleep", "dlq_publish"} /\ pc'[w] # pc[w]
               /\ lost' # lost =>
                  IF attempt[w] = STARTUP_RETRY_ATTEMPTS
                  THEN pc'[w] = "dead"
                  ELSE pc'[w] = "connect"]_vars

\* A worker connected at its tenth attempt, consumed a failing task, and the
\* dead-letter publish raised: the process is gone and the task is lost,
\* while the other worker has not connected yet.
AttemptsNeverResetWitness ==
    /\ pc["w1"] = "dead" /\ attempt["w1"] = STARTUP_RETRY_ATTEMPTS
    /\ pc["w2"] = "connect" /\ attempt["w2"] = 1
    /\ faults = 1
    /\ lost # EmptyBag
    /\ failures # EmptyBag

=============================================================================
